---------------------------- MODULE Spec2Model ----------------------------
(***************************************************************************)
(* A model of the M-Bus telegram parser of mbus-rs: Control::try_from,     *)
(* Address::from and Telegram::parse (src/src/control.rs, address.rs,      *)
(* telegram.rs, lib.rs), together with a caller that receives bytes from a *)
(* transport, calls Telegram::parse on the bytes it holds and feeds the    *)
(* remainder back in, as test::test_parse does.                            *)
(***************************************************************************)
EXTENDS Integers, Sequences, FiniteSets, TLC

VARIABLES
  overflow_checks,  \* build profile: TRUE when integer overflow panics
  stream,           \* bytes the transport has not delivered yet
  buffer,           \* bytes the caller holds and has not consumed
  result,           \* the last call of Telegram::parse: its input and outcome
  telegrams,        \* the telegrams parsed so far, in order
  sent,             \* the frames the stream was built from (fields, in order)
  fault,            \* what was done to the stream after it was built
  byte,             \* the input of the field classifiers
  control_res,      \* Control::try_from(byte), once applied
  address_res       \* Address::from(byte), once applied

vars == <<overflow_checks, stream, buffer, result, telegrams, sent, fault,
          byte, control_res, address_res>>

---------------------------------------------------------------------------
(* Bytes and machine integers. *)

Bytes == 0..255

\* usize arithmetic wraps at 2^w; w = 16 is the narrowest pointer width
\* Rust supports, and every count of the model is far below it.
UsizeModulus == 2^16

\* u8::wrapping_add without the truncation to 8 bits (a mutant).
wrapping_add_unbounded(a, b) == a + b

\* u8::wrapping_add
wrapping_add(a, b) == (a + b) % 256

\* Bit k of byte b.
Bit(b, k) == (b \div (2^k)) % 2

\* Byte b with bit k flipped.
FlipBit(b, k) == IF Bit(b, k) = 1 THEN b - 2^k ELSE b + 2^k

---------------------------------------------------------------------------
(* src/src/control.rs *)

SndNke == [tag |-> "SndNke"]
SndUd(fcb) == [tag |-> "SndUd", fcb |-> fcb]
ReqUd1(fcb) == [tag |-> "ReqUd1", fcb |-> fcb]
ReqUd2(fcb) == [tag |-> "ReqUd2", fcb |-> fcb]
RspUd(acd, dfc) == [tag |-> "RspUd", acd |-> acd, dfc |-> dfc]

ControlOk(c) == [ok |-> TRUE, val |-> c]
ControlErr(b) == [ok |-> FALSE, err |-> b]

\* Control::try_from with the two ReqUd1 patterns taken for ReqUd2 and the
\* error carrying a fixed byte (a mutant).
Control_try_from_swapped(control) ==
  CASE control = \b01000000 -> ControlOk(SndNke)
    [] control = \b01010011 -> ControlOk(SndUd(FALSE))
    [] control = \b01110011 -> ControlOk(SndUd(TRUE))
    [] control = \b01011011 -> ControlOk(ReqUd2(FALSE))
    [] control = \b01111011 -> ControlOk(ReqUd2(TRUE))
    [] control = \b01011010 -> ControlOk(ReqUd1(FALSE))
    [] control = \b01111010 -> ControlOk(ReqUd1(TRUE))
    [] control = \b00001000 -> ControlOk(RspUd(FALSE, FALSE))
    [] control = \b00011000 -> ControlOk(RspUd(FALSE, TRUE))
    [] control = \b00101000 -> ControlOk(RspUd(TRUE, FALSE))
    [] control = \b00111000 -> ControlOk(RspUd(TRUE, TRUE))
    [] OTHER -> ControlErr(0)

\* impl TryFrom<u8> for Control
Control_try_from(control) ==
  CASE control = \b01000000 -> ControlOk(SndNke)
    [] control = \b01010011 -> ControlOk(SndUd(FALSE))
    [] control = \b01110011 -> ControlOk(SndUd(TRUE))
    [] control = \b01011011 -> ControlOk(ReqUd1(FALSE))
    [] control = \b01111011 -> ControlOk(ReqUd1(TRUE))
    [] control = \b01011010 -> ControlOk(ReqUd2(FALSE))
    [] control = \b01111010 -> ControlOk(ReqUd2(TRUE))
    [] control = \b00001000 -> ControlOk(RspUd(FALSE, FALSE))
    [] control = \b00011000 -> ControlOk(RspUd(FALSE, TRUE))
    [] control = \b00101000 -> ControlOk(RspUd(TRUE, FALSE))
    [] control = \b00111000 -> ControlOk(RspUd(TRUE, TRUE))
    [] OTHER -> ControlErr(control)

---------------------------------------------------------------------------
(* src/src/address.rs *)

Unconfigured == [tag |-> "Unconfigured"]
Configured(n) == [tag |-> "Configured", n |-> n]
AddressingPerformedInNetworkLayer == [tag |-> "AddressingPerformedInNetworkLayer"]
Broadcast == [tag |-> "Broadcast"]
Reserved == [tag |-> "Reserved"]

\* Address::from with the configured range one too long, 1..=251 (a mutant).
Address_from_off_by_one(address) ==
  CASE address = 0 -> Unconfigured
    [] address \in 1..251 -> Configured(address)
    [] address = 252 -> Reserved
    [] address = 253 -> AddressingPerformedInNetworkLayer
    [] address \in {254, 255} -> Broadcast

\* impl From<u8> for Address
Address_from(address) ==
  CASE address = 0 -> Unconfigured
    [] address \in 1..250 -> Configured(address)
    [] address \in {251, 252} -> Reserved
    [] address = 253 -> AddressingPerformedInNetworkLayer
    [] address \in {254, 255} -> Broadcast

---------------------------------------------------------------------------
(* src/src/lib.rs: Error, and its nom::error::ParseError implementation. *)

InvalidStartCharacter == [kind |-> "InvalidStartCharacter"]
InvalidFormat == [kind |-> "InvalidFormat"]
ChecksumMismatch == [kind |-> "ChecksumMismatch"]
None == [some |-> FALSE]
Some(n) == [some |-> TRUE, n |-> n]
Incomplete(needed) == [kind |-> "Incomplete", needed |-> needed]

\* from_error_kind returning the other structural error (a mutant).
from_error_kind_start(kind) == InvalidStartCharacter

\* ParseError::from_error_kind for Error
from_error_kind(kind) == InvalidFormat

\* ParseError::append for Error
append(kind, other) == other

---------------------------------------------------------------------------
(* The nom combinators telegram.rs uses, on byte slices.  A parser's       *)
(* outcome is Ok((rest, value)), Err(Error(e)), Err(Failure(e)) or         *)
(* Err(Incomplete(needed)); a panic of the calling code is Panic.          *)

NomOk(rest, value) == [tag |-> "Ok", rest |-> rest, value |-> value]
NomError(e) == [tag |-> "Err", variant |-> "Error", e |-> e]
NomFailure(e) == [tag |-> "Err", variant |-> "Failure", e |-> e]
NomIncomplete(needed) == [tag |-> "Err", variant |-> "Incomplete", e |-> needed]
Panic == [tag |-> "Panic"]

IsOk(r) == r.tag = "Ok"
IsNomError(r) == r.tag = "Err" /\ r.variant = "Error"
IsNomFailure(r) == r.tag = "Err" /\ r.variant = "Failure"
IsNomIncomplete(r) == r.tag = "Err" /\ r.variant = "Incomplete"

Unknown == [size |-> FALSE]
Size(n) == [size |-> TRUE, n |-> n]

\* nom::Needed::new
Needed_new(n) == IF n = 0 THEN Unknown ELSE Size(n)

\* Everything of s after its first n elements.
Drop(s, n) == SubSeq(s, n + 1, Len(s))

\* Whether s begins with p.
StartsWith(s, p) == Len(s) >= Len(p) /\ SubSeq(s, 1, Len(p)) = p

\* nom::bytes::complete::tag in place of the streaming one: an error, not
\* Incomplete, on the empty input (a mutant).
tag_complete(t, input) ==
  IF Len(input) = 0 THEN NomError("Tag")
  ELSE IF Head(input) = t THEN NomOk(Tail(input), <<t>>)
  ELSE NomError("Tag")

\* nom::bytes::streaming::tag of a one-byte tag, with the error kind as the
\* error (the caller's error type makes an error of it).
tag(t, input) ==
  IF Len(input) = 0 THEN NomIncomplete(Needed_new(1 - Len(input)))
  ELSE IF Head(input) = t THEN NomOk(Tail(input), <<t>>)
  ELSE NomError("Tag")

\* nom::number::complete::u8 in place of the streaming one: an error, not
\* Incomplete, at the end of the input (a mutant).
u8_complete(input) ==
  IF Len(input) < 1 THEN NomError("Eof")
  ELSE NomOk(Tail(input), Head(input))

\* The streaming u8 not saying how many bytes it lacks (a mutant).
u8_unknown(input) ==
  IF Len(input) < 1 THEN NomIncomplete(Unknown)
  ELSE NomOk(Tail(input), Head(input))

\* nom::number::streaming::u8
u8(input) ==
  IF Len(input) < 1 THEN NomIncomplete(Needed_new(1))
  ELSE NomOk(Tail(input), Head(input))

\* nom::bytes::streaming::take asking for the whole count when the input is
\* short, as nom 5 did (a mutant).
take_absolute(count, input) ==
  IF Len(input) >= count THEN NomOk(Drop(input, count), SubSeq(input, 1, count))
  ELSE NomIncomplete(Needed_new(count))

\* nom::bytes::streaming::take
take(count, input) ==
  IF Len(input) >= count THEN NomOk(Drop(input, count), SubSeq(input, 1, count))
  ELSE NomIncomplete(Needed_new(count - Len(input)))

\* nom::combinator::cut
cut(r) == IF IsNomError(r) THEN NomFailure(r.e) ELSE r

\* nom::Err::map: the error of an Error or a Failure replaced.
Err_map(r, e) ==
  IF IsNomError(r) \/ IsNomFailure(r) THEN [r EXCEPT !.e = e] ELSE r

\* A parser whose error type is Error: nom builds its errors from the kind.
WithError(r) ==
  IF IsNomError(r) \/ IsNomFailure(r) THEN [r EXCEPT !.e = from_error_kind(r.e)]
  ELSE r

---------------------------------------------------------------------------
(* src/src/telegram.rs *)

SingleCharacter == [tag |-> "SingleCharacter"]
ShortFrame(control, address) ==
  [tag |-> "ShortFrame", control |-> control, address |-> address]
ControlFrame(control, address, control_information) ==
  [tag |-> "ControlFrame", control |-> control, address |-> address,
   control_information |-> control_information]
LongFrame(control, address, control_information, user_data) ==
  [tag |-> "LongFrame", control |-> control, address |-> address,
   control_information |-> control_information, user_data |-> user_data]

SINGLE_CHAR == \hE5
SHORT_START_CHAR == \h10
LONG_START_CHAR == \h68
STOP_CHAR == \h16

\* Telegram::map_error
map_error(nom_error, error) == Err_map(nom_error, error)

\* payload_len -= 1 on a usize: below zero it panics where overflow is
\* checked and wraps where it is not.
usize_dec(payload_len) ==
  IF payload_len >= 1 THEN [panic |-> FALSE, val |-> payload_len - 1]
  ELSE IF overflow_checks THEN [panic |-> TRUE, val |-> 0]
  ELSE [panic |-> FALSE, val |-> UsizeModulus - 1]

\* The closure checksummed_u8 of parse_payload: the byte read, and the
\* running checksum with it added.
checksummed_u8(input, calculated_checksum) ==
  LET r == cut(WithError(u8(input)))
  IN  IF IsOk(r)
      THEN [tag |-> "Ok", rest |-> r.rest, value |-> r.value,
            sum |-> wrapping_add(calculated_checksum, r.value)]
      ELSE r

\* The loop over the payload of parse_payload: the running checksum with
\* every byte of the payload added.
RECURSIVE checksum_payload(_, _)
checksum_payload(calculated_checksum, payload) ==
  IF payload = <<>> THEN calculated_checksum
  ELSE checksum_payload(wrapping_add(calculated_checksum, Head(payload)),
                        Tail(payload))

\* The comparison of the checksums left out (a mutant).
checksums_unverified(calculated_checksum, checksum) == FALSE

\* calculated_checksum != checksum of parse_payload
checksums_differ(calculated_checksum, checksum) == calculated_checksum # checksum

\* The classification with payload.len() >= 0 for payload.len() > 0: a
\* frame with control information is always a long frame (a mutant).
classify_always_long(control, address, control_information, payload) ==
  IF control_information.some
  THEN LongFrame(control, address, control_information.n, payload)
  ELSE ShortFrame(control, address)

\* The end of parse_payload: the telegram, from whether there is control
\* information and whether there is user data.
classify(control, address, control_information, payload) ==
  IF control_information.some
  THEN IF Len(payload) > 0
       THEN LongFrame(control, address, control_information.n, payload)
       ELSE ControlFrame(control, address, control_information.n)
  ELSE ShortFrame(control, address)

\* The end of parse_payload with the checksum compared before the stop
\* character is read (a mutant).
payload_tail_checksum_first(input, calculated_checksum, control, address, control_information, payload) ==
  LET rc == cut(WithError(u8(input)))
  IN  IF ~IsOk(rc) THEN rc
      ELSE IF checksums_differ(calculated_checksum, rc.value) THEN NomFailure(ChecksumMismatch)
      ELSE
        LET rs == cut(WithError(tag(STOP_CHAR, rc.rest)))
        IN  IF ~IsOk(rs) THEN rs
            ELSE NomOk(rs.rest, classify(control, address, control_information, payload))

\* parse_payload from the checksum byte on: the checksum byte, the stop
\* character, the comparison of the checksums and the classification.
payload_tail(input, calculated_checksum, control, address, control_information, payload) ==
  LET rc == cut(WithError(u8(input)))
  IN  IF ~IsOk(rc) THEN rc
      ELSE
        LET rs == cut(WithError(tag(STOP_CHAR, rc.rest)))
        IN  IF ~IsOk(rs) THEN rs
            ELSE IF checksums_differ(calculated_checksum, rc.value)
            THEN NomFailure(ChecksumMismatch)
            ELSE NomOk(rs.rest, classify(control, address, control_information, payload))

\* parse_payload from the user data on: the payload taken and summed.
payload_body(input, payload_len, calculated_checksum, control, address, control_information) ==
  LET rp == take(payload_len, input)
  IN  IF ~IsOk(rp) THEN rp
      ELSE payload_tail(rp.rest,
                        checksum_payload(calculated_checksum, rp.value),
                        control, address, control_information, rp.value)

\* parse_payload from the optional control information on.
payload_information(input, payload_len, calculated_checksum, control, address) ==
  IF payload_len > 0
  THEN LET ri == checksummed_u8(input, calculated_checksum)
           d == usize_dec(payload_len)
       IN  IF ~IsOk(ri) THEN ri
           ELSE IF d.panic THEN Panic
           ELSE payload_body(ri.rest, d.val, ri.sum, control, address,
                             Some(ri.value))
  ELSE payload_body(input, payload_len, calculated_checksum, control, address,
                    None)

\* The error of an unrecognized control byte as a recoverable Error, which
\* alt answers by trying the next parser (a mutant).
invalid_control_recoverable(unknown) == NomError(InvalidFormat)

\* The map_err of parse_payload on Control::try_from: whatever byte the
\* error carries, a Failure with InvalidFormat.
invalid_control(unknown) == NomFailure(InvalidFormat)

\* Telegram::parse_payload
parse_payload(input, payload_len) ==
  LET rc == checksummed_u8(input, 0)
  IN  IF ~IsOk(rc) THEN rc
      ELSE
        LET control == Control_try_from(rc.value)
            d1 == usize_dec(payload_len)
        IN  IF ~control.ok THEN invalid_control(control.err)
            ELSE IF d1.panic THEN Panic
            ELSE
              LET ra == checksummed_u8(rc.rest, rc.sum)
                  d2 == usize_dec(d1.val)
              IN  IF ~IsOk(ra) THEN ra
                  ELSE IF d2.panic THEN Panic
                  ELSE payload_information(ra.rest, d2.val, ra.sum,
                                           control.val, Address_from(ra.value))

\* Telegram::parse_single returning its input, not what follows the byte it
\* matched (a mutant).
parse_single_unconsumed(input) ==
  LET r == map_error(tag(SINGLE_CHAR, input), InvalidStartCharacter)
  IN  IF ~IsOk(r) THEN r ELSE NomOk(input, SingleCharacter)

\* Telegram::parse_single
parse_single(input) ==
  LET r == map_error(tag(SINGLE_CHAR, input), InvalidStartCharacter)
  IN  IF ~IsOk(r) THEN r ELSE NomOk(r.rest, SingleCharacter)

\* Telegram::parse_short
parse_short(input) ==
  LET r == map_error(tag(SHORT_START_CHAR, input), InvalidStartCharacter)
  IN  IF ~IsOk(r) THEN r ELSE parse_payload(r.rest, 2)

\* The tuple with any byte accepted in place of the second start character
\* (a mutant).
tuple_header_one_marker(input) ==
  LET r1 == tag(LONG_START_CHAR, input)
  IN  IF ~IsOk(r1) THEN r1
      ELSE LET r2 == u8(r1.rest)
      IN  IF ~IsOk(r2) THEN r2
      ELSE LET r3 == u8(r2.rest)
      IN  IF ~IsOk(r3) THEN r3
      ELSE LET r4 == u8(r3.rest)
      IN  IF ~IsOk(r4) THEN r4
      ELSE NomOk(r4.rest, <<r2.value, r3.value>>)

\* nom::sequence::tuple of (start_char, u8, u8, start_char): the four
\* parsers in turn, the first failure returned.
tuple_header(input) ==
  LET r1 == tag(LONG_START_CHAR, input)
  IN  IF ~IsOk(r1) THEN r1
      ELSE LET r2 == u8(r1.rest)
      IN  IF ~IsOk(r2) THEN r2
      ELSE LET r3 == u8(r2.rest)
      IN  IF ~IsOk(r3) THEN r3
      ELSE LET r4 == tag(LONG_START_CHAR, r3.rest)
      IN  IF ~IsOk(r4) THEN r4
      ELSE NomOk(r4.rest, <<r2.value, r3.value>>)

\* Telegram::parse_long without the comparison of the two length bytes
\* (a mutant).
parse_long_unchecked(input) ==
  LET r == map_error(tuple_header(input), InvalidStartCharacter)
  IN  IF ~IsOk(r) THEN r ELSE parse_payload(r.rest, r.value[1])

\* Telegram::parse_long
parse_long(input) ==
  LET r == map_error(tuple_header(input), InvalidStartCharacter)
  IN  IF ~IsOk(r) THEN r
      ELSE IF r.value[1] # r.value[2] THEN NomError(InvalidStartCharacter)
      ELSE parse_payload(r.rest, r.value[1])

\* nom::branch::alt of the three parsers: the first outcome that is not
\* Err(Error); when all three are, the last error (Error::or keeps the
\* later one, Error::append the one it is given).
alt(input) ==
  LET r1 == parse_single(input)
  IN  IF ~IsNomError(r1) THEN r1
      ELSE LET r2 == parse_short(input)
      IN  IF ~IsNomError(r2) THEN r2
      ELSE LET r3 == parse_long(input)
      IN  IF ~IsNomError(r3) THEN r3
      ELSE NomError(append("Alt", r3.e))

\* The map_err of Telegram::parse: nom's Incomplete made a Failure carrying
\* Error::Incomplete.
map_incomplete(r) ==
  IF IsNomIncomplete(r)
  THEN NomFailure(Incomplete(IF r.e.size THEN Some(r.e.n) ELSE None))
  ELSE r

ParseOk(rest, telegram) == [tag |-> "Ok", rest |-> rest, telegram |-> telegram]
ParseErr(error) == [tag |-> "Err", error |-> error]

\* nom::Finish::finish
finish(r) ==
  IF r.tag = "Panic" THEN Panic
  ELSE IF IsOk(r) THEN ParseOk(r.rest, r.value)
  ELSE IF IsNomIncomplete(r) THEN Panic
  ELSE ParseErr(r.e)

\* Telegram::parse
parse(input) == finish(map_incomplete(alt(input)))

---------------------------------------------------------------------------
(* The frames a stream is built from, after the wire format of the fixture *)
(* TELEGRAMS of telegram.rs: start, length twice, start, control, address, *)
(* control information, user data, checksum, stop.                         *)

MaxUserData == 2
MaxFrames == 2
MaxRaw == 6

\* The eleven control bytes of control.rs.
ControlBytes ==
  {\h40, \h53, \h73, \h5B, \h7B, \h5A, \h7A, \h08, \h18, \h28, \h38}

\* Address bytes at the edges of the ranges of address.rs.
FrameAddresses == {0, 1, 250, 253, 255}

\* Control-information and user-data bytes, the parser's own marker bytes
\* among them.
FrameInformation == {\h00, \h68}
UserDataBytes == {\h16, \hE5}

SeqsUpTo(S, n) == UNION {[1..k -> S] : k \in 0..n}

RECURSIVE SumBytes(_)
SumBytes(s) == IF s = <<>> THEN 0 ELSE Head(s) + SumBytes(Tail(s))

\* The checksum of the wire format: the sum of the payload bytes modulo 256.
Checksum(payload) == SumBytes(payload) % 256

SingleFrame == [kind |-> "single"]
ShortFrames == {[kind |-> "short", c |-> c, a |-> a] :
                  c \in ControlBytes, a \in FrameAddresses}
LongFrames == {[kind |-> "long", c |-> c, a |-> a, ci |-> ci, ud |-> ud] :
                 c \in ControlBytes, a \in FrameAddresses,
                 ci \in FrameInformation,
                 ud \in SeqsUpTo(UserDataBytes, MaxUserData)}
Frames == {SingleFrame} \cup ShortFrames \cup LongFrames

\* The frames streams of several frames are built from: the single
\* character, the short frame of the specification's scenario, a control
\* frame and a long frame.
StreamFrames ==
  {SingleFrame,
   [kind |-> "short", c |-> \h7B, a |-> \h08],
   [kind |-> "long", c |-> \h53, a |-> \hFF, ci |-> \h00, ud |-> <<>>],
   [kind |-> "long", c |-> \h08, a |-> \h01, ci |-> \h11, ud |-> <<\h16>>]}

\* A long frame with the first four user-data bytes of the first telegram
\* of the test, long enough for a prefix to end deep inside the user data.
LongerFrames ==
  {[kind |-> "long", c |-> \h53, a |-> \hFF, ci |-> \h00,
    ud |-> <<\h01, \h67, \hDB, \h08>>]}

\* The payload of a frame: the bytes its length byte counts.
Payload(f) ==
  CASE f.kind = "single" -> <<>>
    [] f.kind = "short" -> <<f.c, f.a>>
    [] f.kind = "long" -> <<f.c, f.a, f.ci>> \o f.ud

\* The bytes of a frame on the wire.
Encode(f) ==
  CASE f.kind = "single" -> <<SINGLE_CHAR>>
    [] f.kind = "short" ->
         <<SHORT_START_CHAR>> \o Payload(f) \o <<Checksum(Payload(f)), STOP_CHAR>>
    [] f.kind = "long" ->
         <<LONG_START_CHAR, Len(Payload(f)), Len(Payload(f)), LONG_START_CHAR>>
           \o Payload(f) \o <<Checksum(Payload(f)), STOP_CHAR>>

RECURSIVE EncodeAll(_)
EncodeAll(frames) ==
  IF frames = <<>> THEN <<>> ELSE Encode(Head(frames)) \o EncodeAll(Tail(frames))

---------------------------------------------------------------------------
(* The caller. *)

NoCall == [called |-> FALSE]
NoFault == [bits |-> {}, stop |-> STOP_CHAR]
NotApplied == [applied |-> FALSE]

Panicked == result.called /\ result.out.tag = "Panic"

\* The transport delivers the next bytes of the stream, in a chunk of any
\* size.
Receive ==
  /\ ~Panicked
  /\ stream # <<>>
  /\ \E n \in 1..Len(stream) :
       /\ buffer' = buffer \o SubSeq(stream, 1, n)
       /\ stream' = Drop(stream, n)
  /\ result' = NoCall
  /\ UNCHANGED <<overflow_checks, telegrams, sent, fault, byte, control_res,
                 address_res>>

\* One pass of the loop of test_parse: Telegram::parse on the bytes held;
\* on success the remainder is kept for the next call and the telegram is
\* pushed.
Call ==
  /\ ~Panicked
  /\ LET out == parse(buffer)
     IN  /\ result' = [called |-> TRUE, input |-> buffer, out |-> out]
         /\ IF out.tag = "Ok"
            THEN /\ buffer' = out.rest
                 /\ telegrams' = Append(telegrams, out.telegram)
            ELSE UNCHANGED <<buffer, telegrams>>
  /\ UNCHANGED <<overflow_checks, stream, sent, fault, byte, control_res,
                 address_res>>

\* A stream of well-formed frames: any one frame, or up to MaxFrames of the
\* stream frames.
Init ==
  /\ overflow_checks \in BOOLEAN
  /\ sent \in {<<f>> : f \in Frames \cup LongerFrames}
                \cup SeqsUpTo(StreamFrames, MaxFrames)
  /\ stream = EncodeAll(sent)
  /\ buffer = <<>>
  /\ result = NoCall
  /\ telegrams = <<>>
  /\ fault = NoFault
  /\ byte = 0
  /\ control_res = NotApplied
  /\ address_res = NotApplied

Next == Receive \/ Call

Spec == Init /\ [][Next]_vars

---------------------------------------------------------------------------
(* Streams of one frame damaged on the way: a bit of the checksum byte     *)
(* flipped, the stop character replaced, or both.                          *)

FaultControls == {\h40, \h7B, \h38}
FaultAddresses == {\hFF}
FaultInformation == {\h00}
FaultUserDataBytes == {\hE5}
StopFaults == {\h00, \h17, \hE5}

FaultFrames ==
  {[kind |-> "short", c |-> c, a |-> a] :
     c \in FaultControls, a \in FaultAddresses}
  \cup
  {[kind |-> "long", c |-> c, a |-> a, ci |-> ci, ud |-> ud] :
     c \in FaultControls, a \in FaultAddresses, ci \in FaultInformation,
     ud \in SeqsUpTo(FaultUserDataBytes, MaxUserData)}

Faults ==
  {[bits |-> bs, stop |-> s] :
     bs \in {{}} \cup {{k} : k \in 0..7},
     s \in {STOP_CHAR} \cup StopFaults} \ {NoFault}

FlipBits(b, bits) == IF bits = {} THEN b ELSE FlipBit(b, CHOOSE k \in bits : TRUE)

\* The bytes of a frame with the checksum byte (the last but one) and the
\* stop character (the last) damaged as f says.
ApplyFault(bytes, f) ==
  [i \in 1..Len(bytes) |->
     IF i = Len(bytes) - 1 THEN FlipBits(bytes[i], f.bits)
     ELSE IF i = Len(bytes) THEN f.stop
     ELSE bytes[i]]

InitFault ==
  /\ overflow_checks \in BOOLEAN
  /\ sent \in {<<f>> : f \in FaultFrames}
  /\ fault \in Faults
  /\ stream = ApplyFault(EncodeAll(sent), fault)
  /\ buffer = <<>>
  /\ result = NoCall
  /\ telegrams = <<>>
  /\ byte = 0
  /\ control_res = NotApplied
  /\ address_res = NotApplied

SpecFault == InitFault /\ [][Next]_vars

---------------------------------------------------------------------------
(* A transport that delivers any bytes, one at a time: any start byte, for *)
(* 0x68 the two length bytes and the second start byte, then up to MaxRaw  *)
(* further bytes.                                                          *)

RawStartBytes == Bytes
\* The start bytes after which the transport delivers more: the three start
\* characters, and two bytes that are none.
RawContinued == {\h00, STOP_CHAR, SHORT_START_CHAR, LONG_START_CHAR, SINGLE_CHAR}
RawLengths == {0, 1, 2, 3, 4}
RawMarkers == {LONG_START_CHAR, SHORT_START_CHAR}
\* An unrecognized control byte, a recognized one and the stop character.
RawPayloadBytes == {\h00, \h08, STOP_CHAR}

\* How many bytes of b come before the payload.
RawHeaderLen(b) == IF b # <<>> /\ b[1] = LONG_START_CHAR THEN 4 ELSE 1

RawNext(b) ==
  IF b = <<>> THEN RawStartBytes
  ELSE IF b[1] \notin RawContinued THEN {}
  ELSE IF Len(b) < RawHeaderLen(b)
  THEN CASE Len(b) = 1 -> RawLengths
         [] Len(b) = 2 -> {b[2], b[2] + 1}
         [] Len(b) = 3 -> RawMarkers
  ELSE IF Len(b) < RawHeaderLen(b) + MaxRaw THEN RawPayloadBytes
  ELSE {}

ReceiveRaw ==
  /\ ~Panicked
  /\ telegrams = <<>>
  /\ \E b \in RawNext(buffer) : buffer' = Append(buffer, b)
  /\ result' = NoCall
  /\ UNCHANGED <<overflow_checks, stream, telegrams, sent, fault, byte,
                 control_res, address_res>>

InitRaw ==
  /\ overflow_checks \in BOOLEAN
  /\ sent = <<>>
  /\ fault = NoFault
  /\ stream = <<>>
  /\ buffer = <<>>
  /\ result = NoCall
  /\ telegrams = <<>>
  /\ byte = 0
  /\ control_res = NotApplied
  /\ address_res = NotApplied

NextRaw == ReceiveRaw \/ Call

SpecRaw == InitRaw /\ [][NextRaw]_vars

---------------------------------------------------------------------------
(* The field classifiers applied to every byte. *)

ClassifyControl ==
  /\ ~control_res.applied
  /\ control_res' = [applied |-> TRUE, out |-> Control_try_from(byte)]
  /\ UNCHANGED <<overflow_checks, stream, buffer, result, telegrams, sent,
                 fault, byte, address_res>>

ClassifyAddress ==
  /\ ~address_res.applied
  /\ address_res' = [applied |-> TRUE, out |-> Address_from(byte)]
  /\ UNCHANGED <<overflow_checks, stream, buffer, result, telegrams, sent,
                 fault, byte, control_res>>

InitFields ==
  /\ byte \in Bytes
  /\ control_res = NotApplied
  /\ address_res = NotApplied
  /\ overflow_checks = FALSE
  /\ sent = <<>>
  /\ fault = NoFault
  /\ stream = <<>>
  /\ buffer = <<>>
  /\ result = NoCall
  /\ telegrams = <<>>

NextFields == ClassifyControl \/ ClassifyAddress

SpecFields == InitFields /\ [][NextFields]_vars

---------------------------------------------------------------------------
(* What the claims speak of. *)

Called == result.called
Out == result.out
Succeeded == Called /\ Out.tag = "Ok"
Failed == Called /\ Out.tag = "Err"
FailedWith(kind) == Failed /\ Out.error.kind = kind

\* The place in sent of the frame the last call's input begins with: the
\* number of telegrams parsed before the call, plus one.
Index == IF Succeeded THEN Len(telegrams) ELSE Len(telegrams) + 1

\* The frame the last call's input begins with, and its bytes on the wire.
Frame == sent[Index]
FrameBytes == Encode(Frame)

\* The last call was given all the bytes of that frame (and maybe more).
WholeFrame == Called /\ Index <= Len(sent) /\ StartsWith(result.input, FrameBytes)

\* The last call was given a proper prefix of that frame.
ProperPrefix ==
  /\ Called
  /\ Index <= Len(sent)
  /\ Len(result.input) < Len(FrameBytes)
  /\ StartsWith(FrameBytes, result.input)

\* The telegram a frame stands for.
TelegramOf(f) ==
  CASE f.kind = "single" -> SingleCharacter
    [] f.kind = "short" ->
         ShortFrame(Control_try_from(f.c).val, Address_from(f.a))
    [] f.kind = "long" /\ f.ud = <<>> ->
         ControlFrame(Control_try_from(f.c).val, Address_from(f.a), f.ci)
    [] OTHER ->
         LongFrame(Control_try_from(f.c).val, Address_from(f.a), f.ci, f.ud)

UserDataOf(t) == IF t.tag = "LongFrame" THEN t.user_data ELSE <<>>

\* The bytes a frame takes, from what its first bytes declare: 1 for the
\* single character, 5 for a short frame, L + 6 for a 0x68 frame.
DeclaredBytes(input) ==
  CASE input[1] = SINGLE_CHAR -> 1
    [] input[1] = SHORT_START_CHAR -> 5
    [] input[1] = LONG_START_CHAR -> input[2] + 6

\* The bytes of the stream before frame k.
Offset(k) == Len(EncodeAll(SubSeq(sent, 1, k - 1)))

---------------------------------------------------------------------------
(* Claims checked on streams of well-formed frames (Spec). *)

\* C1: Round trip. Whenever Telegram::parse is given a whole well-formed
\* short, control or long frame (recognized control byte c, address byte a,
\* for 0x68 frames a control-information byte and user data, the length
\* twice, the sum of the payload modulo 256 as checksum, stop byte 0x16),
\* it succeeds and the telegram's control is Control::try_from(c), its
\* address Address::from(a), its control_information the constructed byte
\* and its user_data the constructed user data, in content and length.
C1_RoundTrip ==
  (WholeFrame /\ Frame.kind # "single") =>
    /\ Succeeded
    /\ Out.telegram.tag # "SingleCharacter"
    /\ ControlOk(Out.telegram.control) = Control_try_from(Frame.c)
    /\ Out.telegram.address = Address_from(Frame.a)
    /\ Frame.kind = "short" => Out.telegram.tag = "ShortFrame"
    /\ Frame.kind = "long" =>
         /\ Out.telegram.tag \in {"ControlFrame", "LongFrame"}
         /\ Out.telegram.control_information = Frame.ci
         /\ UserDataOf(Out.telegram) = Frame.ud
         /\ Len(UserDataOf(Out.telegram)) = Len(Frame.ud)

\* C1 witness: a long frame with two user-data bytes whose payload sums
\* past 255 has been parsed.
C1_Witness ==
  /\ WholeFrame
  /\ Succeeded
  /\ Frame.kind = "long"
  /\ Frame.ud = <<\h16, \hE5>>
  /\ SumBytes(Payload(Frame)) > 255
  /\ Out.telegram.tag = "LongFrame"

\* C2: Streaming. On a stream that is the concatenation of n well-formed
\* frames, every call is given the bytes that follow the frames already
\* parsed; a call given the whole k-th frame succeeds with that frame's
\* telegram and leaves exactly the bytes after it (1 byte consumed for the
\* single character, 5 for a short frame, L + 6 for a 0x68 frame), so the
\* telegrams come out in order and nothing is left after the n-th.
C2_Streaming ==
  /\ \A k \in 1..Len(telegrams) :
       k <= Len(sent) /\ telegrams[k] = TelegramOf(sent[k])
  /\ Called =>
       result.input = SubSeq(EncodeAll(sent), Offset(Index) + 1,
                             Len(EncodeAll(sent)) - Len(stream))
  /\ WholeFrame =>
       /\ Succeeded
       /\ Out.telegram = TelegramOf(Frame)
       /\ Out.rest = Drop(result.input, DeclaredBytes(result.input))
       /\ buffer = Out.rest
  /\ (Succeeded /\ Len(telegrams) = Len(sent) /\ stream = <<>>) => buffer = <<>>

\* C2 witness: the second call, on the remainder of the first, has parsed
\* the second frame of a stream given whole, and nothing is left.
C2_Witness ==
  /\ Succeeded
  /\ Len(sent) = 2
  /\ Len(telegrams) = 2
  /\ telegrams[1].tag = "LongFrame"
  /\ telegrams[2].tag = "ShortFrame"
  /\ result.input = Encode(sent[2])
  /\ stream = <<>>
  /\ buffer = <<>>

\* C3: Truncation. Telegram::parse on a proper prefix of a well-formed
\* frame, the empty prefix included, fails with Incomplete, never with
\* InvalidFormat, ChecksumMismatch or InvalidStartCharacter.
C3_Truncation == ProperPrefix => FailedWith("Incomplete")

\* C3 witness: a call on the first eight bytes of a long frame of eleven,
\* which end inside the user data, has failed with Incomplete.
C3_Witness ==
  /\ ProperPrefix
  /\ Frame.kind = "long"
  /\ Len(FrameBytes) = 11
  /\ Len(result.input) = 8
  /\ FailedWith("Incomplete")

---------------------------------------------------------------------------
(* Claims checked on single frames damaged on the way (SpecFault). *)

\* The last call was given all the bytes of the damaged frame.
WholeDamagedFrame == Called /\ result.input = ApplyFault(EncodeAll(sent), fault)

\* C4: Checksum mutation. Telegram::parse on a well-formed short, control
\* or long frame whose checksum byte has one bit flipped, every other byte
\* and the stop byte 0x16 unchanged, fails with ChecksumMismatch and no
\* other error.
C4_ChecksumMutation ==
  (WholeDamagedFrame /\ fault.bits # {} /\ fault.stop = STOP_CHAR) =>
    FailedWith("ChecksumMismatch")

\* C4 witness: a long frame with the top bit of its checksum byte flipped
\* and its stop byte in place has been refused with ChecksumMismatch.
C4_Witness ==
  /\ WholeDamagedFrame
  /\ fault = [bits |-> {7}, stop |-> STOP_CHAR]
  /\ sent[1].kind = "long"
  /\ sent[1].ud # <<>>
  /\ FailedWith("ChecksumMismatch")

---------------------------------------------------------------------------
(* Claims checked on arbitrary bytes (SpecRaw). *)

\* The input of the last call begins 0x68, a, b, z.
LongHeader == Called /\ Len(result.input) >= 4 /\ result.input[1] = LONG_START_CHAR
LengthsDiffer == result.input[2] # result.input[3]
MarkerRepeated == result.input[4] = LONG_START_CHAR

\* C5: Length mismatch. Telegram::parse on an input that begins 0x68, a, b,
\* 0x68 with a # b fails with InvalidStartCharacter whatever follows the
\* fourth byte (nothing, an unrecognized control byte, a right or a wrong
\* checksum).
C5_LengthMismatch ==
  (LongHeader /\ MarkerRepeated /\ LengthsDiffer) =>
    FailedWith("InvalidStartCharacter")

\* C5 witness: 68 02 03 68 followed by a payload with a right checksum and
\* the stop byte has been refused with InvalidStartCharacter.
C5_Witness ==
  /\ Called
  /\ result.input = <<\h68, 2, 3, \h68, \h08, \h00, \h08, \h16>>
  /\ FailedWith("InvalidStartCharacter")

\* C6: Invalid start. Telegram::parse on a non-empty input whose first byte
\* is none of 0xE5, 0x10, 0x68, and on an input that begins 0x68, x, y, z
\* with z # 0x68, fails with InvalidStartCharacter.
C6_InvalidStart ==
  /\ (/\ Called
      /\ result.input # <<>>
      /\ result.input[1] \notin {\hE5, \h10, \h68}) =>
       FailedWith("InvalidStartCharacter")
  /\ (LongHeader /\ ~MarkerRepeated) => FailedWith("InvalidStartCharacter")

\* C6 witness: 68 02 02 10 followed by what would be a whole payload has
\* been refused with InvalidStartCharacter.
C6_Witness ==
  /\ Called
  /\ result.input = <<\h68, 2, 2, \h10, \h08, \h00, \h08, \h16>>
  /\ FailedWith("InvalidStartCharacter")

\* The payload length the input of the last call declares: 2 after 0x10,
\* the length byte after 0x68.
DeclaredLength ==
  IF result.input[1] = SHORT_START_CHAR THEN 2 ELSE result.input[2]

\* C7: Classification by the declared length L alone. A successful parse of
\* a frame with L = 2 returns a ShortFrame, with L = 3 a ControlFrame, with
\* L >= 4 a LongFrame with L - 3 bytes of user data; no successful parse
\* returns a LongFrame with empty user data.
C7_Classification ==
  (Succeeded /\ result.input[1] # SINGLE_CHAR) =>
    /\ DeclaredLength = 2 => Out.telegram.tag = "ShortFrame"
    /\ DeclaredLength = 3 => Out.telegram.tag = "ControlFrame"
    /\ DeclaredLength >= 4 =>
         /\ Out.telegram.tag = "LongFrame"
         /\ Len(Out.telegram.user_data) = DeclaredLength - 3
    /\ Out.telegram.tag = "LongFrame" => Out.telegram.user_data # <<>>

\* C7 witness: a 0x68 frame of declared length 4 has been parsed as a
\* LongFrame.
C7_Witness ==
  /\ Succeeded
  /\ result.input[1] = LONG_START_CHAR
  /\ DeclaredLength = 4
  /\ Out.telegram.tag = "LongFrame"
  /\ Len(Out.telegram.user_data) = 1

\* C8 (as claimed): whenever Telegram::parse returns a ShortFrame, the input
\* began with 0x10 and exactly 5 bytes were consumed; an input that begins
\* 0x68 L L 0x68 is never returned as a ShortFrame.
C8_ShortFrameIsFiveBytes ==
  (Succeeded /\ Out.telegram.tag = "ShortFrame") =>
    /\ result.input[1] = SHORT_START_CHAR
    /\ Len(result.input) - Len(Out.rest) = 5

\* The input of the last call begins 0x68 L L 0x68 with L below 2.
ShortLength == LongHeader /\ MarkerRepeated /\ ~LengthsDiffer /\ result.input[2] < 2

\* The most bytes a frame can take: 255 + 6.
LongestFrame == 255 + 6

\* C9 (as claimed): a 0x68 frame with L = 0 or L = 1 (both length bytes
\* equal, second 0x68 present) makes Telegram::parse fail with Incomplete
\* or InvalidFormat for every continuation, and the remaining-length
\* counter never goes below zero: no abort, and no wrapped counter asking
\* for more bytes than any frame has.
C9_NoUnderflow ==
  ShortLength =>
    /\ FailedWith("Incomplete") \/ FailedWith("InvalidFormat")
    /\ (FailedWith("Incomplete") /\ Out.error.needed.some) =>
         Out.error.needed.n <= LongestFrame

---------------------------------------------------------------------------
(* Claims checked on the field classifiers (SpecFields). *)

\* C10: Control classification. Control::try_from maps 0x40 to SndNke;
\* 0x53, 0x73 to SndUd, 0x5B, 0x7B to ReqUd1 and 0x5A, 0x7A to ReqUd2, with
\* fcb bit 5 of the byte; 0x08, 0x18, 0x28, 0x38 to RspUd with acd bit 5
\* and dfc bit 4; for every other byte it returns an error carrying that
\* byte.
C10_ControlClassification ==
  control_res.applied =>
    LET out == control_res.out
        fcb == Bit(byte, 5) = 1
        acd == Bit(byte, 5) = 1
        dfc == Bit(byte, 4) = 1
    IN  /\ byte = \h40 => out = ControlOk(SndNke)
        /\ byte \in {\h53, \h73} => out = ControlOk(SndUd(fcb))
        /\ byte \in {\h5B, \h7B} => out = ControlOk(ReqUd1(fcb))
        /\ byte \in {\h5A, \h7A} => out = ControlOk(ReqUd2(fcb))
        /\ byte \in {\h08, \h18, \h28, \h38} => out = ControlOk(RspUd(acd, dfc))
        /\ byte \notin {\h40, \h53, \h73, \h5B, \h7B, \h5A, \h7A,
                        \h08, \h18, \h28, \h38} => out = ControlErr(byte)

\* C10 witness: 0x7B has been classified as ReqUd1 with fcb set.
C10_Witness ==
  /\ control_res.applied
  /\ byte = \h7B
  /\ control_res.out = ControlOk(ReqUd1(TRUE))


\* C11: Address classification. Address::from is total over the 256 bytes:
\* 0 gives Unconfigured, every b in 1..250 Configured(b) with the same b,
\* 251 and 252 Reserved, 253 AddressingPerformedInNetworkLayer, 254 and 255
\* Broadcast.
C11_AddressClassification ==
  address_res.applied =>
    LET out == address_res.out
    IN  /\ byte = 0 => out = Unconfigured
        /\ (byte >= 1 /\ byte <= 250) => out = Configured(byte)
        /\ (byte = 251 \/ byte = 252) => out = Reserved
        /\ byte = 253 => out = AddressingPerformedInNetworkLayer
        /\ (byte = 254 \/ byte = 255) => out = Broadcast
        /\ out.tag \in {"Unconfigured", "Configured", "Reserved",
                        "AddressingPerformedInNetworkLayer", "Broadcast"}

\* C11 witness: 251, the first byte past the configured range, has been
\* classified as Reserved.
C11_Witness ==
  /\ address_res.applied
  /\ byte = 251
  /\ address_res.out = Reserved

---------------------------------------------------------------------------
(* Further claims on damaged frames (SpecFault). *)

\* C12: Stop character. Telegram::parse on a complete frame with a
\* recognized control byte and a correct checksum whose byte after the
\* checksum is not 0x16 fails with InvalidFormat.
C12_StopCharacter ==
  (WholeDamagedFrame /\ fault.bits = {} /\ fault.stop # STOP_CHAR) =>
    FailedWith("InvalidFormat")

\* C12 witness: a control frame whose checksum is right and whose last
\* byte is 0x17 has been refused with InvalidFormat.
C12_Witness ==
  /\ WholeDamagedFrame
  /\ fault = [bits |-> {}, stop |-> \h17]
  /\ sent[1].kind = "long"
  /\ sent[1].ud = <<>>
  /\ FailedWith("InvalidFormat")

---------------------------------------------------------------------------
(* Further claims on arbitrary bytes (SpecRaw). *)

\* The eleven recognized control bytes, as the claims list them.
Recognized ==
  {\h40, \h53, \h73, \h5B, \h7B, \h5A, \h7A, \h08, \h18, \h28, \h38}

\* The input of the last call begins with a start pattern: 0x10, or
\* 0x68 L L 0x68 with both length bytes equal.
ShortStart == Called /\ result.input # <<>> /\ result.input[1] = SHORT_START_CHAR
LongStart == LongHeader /\ MarkerRepeated /\ ~LengthsDiffer
Committed == ShortStart \/ LongStart

\* Where the control byte stands after the start pattern.
ControlAt == IF ShortStart THEN 2 ELSE 5

\* C13: Invalid control byte. Once a start pattern has matched and the next
\* byte is present and is none of the eleven recognized control bytes,
\* Telegram::parse fails with InvalidFormat whatever follows that byte,
\* also when nothing follows it.
C13_InvalidControl ==
  (/\ Committed
   /\ Len(result.input) >= ControlAt
   /\ result.input[ControlAt] \notin Recognized) =>
    FailedWith("InvalidFormat")

\* C13 witness: 10 00, a short start and an unrecognized control byte with
\* nothing after it, has been refused with InvalidFormat.
C13_Witness ==
  /\ Called
  /\ result.input = <<\h10, \h00>>
  /\ FailedWith("InvalidFormat")

---------------------------------------------------------------------------
(* The byte count of Incomplete on prefixes of well-formed frames (Spec). *)

\* The last call was given a proper prefix of a short or long frame that
\* settles the frame's length: the 0x10 of a short frame, or the first
\* length byte of a 0x68 frame.
Determined ==
  /\ ProperPrefix
  /\ \/ Frame.kind = "short" /\ Len(result.input) >= 1
     \/ Frame.kind = "long" /\ Len(result.input) >= 2

\* The bytes of the frame the last call was not given.
Missing == Len(FrameBytes) - Len(result.input)

\* The prefix holds the control-information byte of a 0x68 frame (seven
\* bytes) and not yet all of the user data.
InsideUserData ==
  /\ Frame.kind = "long"
  /\ Len(result.input) >= 7
  /\ Len(result.input) < Len(FrameBytes) - 2

\* C14 (as claimed): on a proper prefix that settles the frame's length,
\* the count carried by Incomplete is the frame length minus the prefix
\* length.
C14_WholeShortfall ==
  (Determined /\ FailedWith("Incomplete")) => Out.error.needed = Some(Missing)

\* C14 (amended): on a proper prefix that settles the frame's length,
\* Telegram::parse fails with Incomplete and the count is what the parser
\* that ran out of input lacks: the user-data bytes still missing (the
\* frame length minus the prefix length minus 2) when the prefix holds the
\* control-information byte and not all of the user data, and 1 otherwise.
C14_StepShortfall ==
  Determined =>
    /\ FailedWith("Incomplete")
    /\ Out.error.needed = Some(IF InsideUserData THEN Missing - 2 ELSE 1)

\* C14 witness: the first eight bytes of the frame with four user-data
\* bytes (thirteen bytes) have been refused with Incomplete asking for the
\* three user-data bytes that lack, where five bytes are missing.
C14_Witness ==
  /\ Determined
  /\ Frame \in LongerFrames
  /\ Len(result.input) = 8
  /\ Missing = 5
  /\ FailedWith("Incomplete")
  /\ Out.error.needed = Some(3)

\* C20: Incomplete never over-asks. Whenever Telegram::parse fails with
\* Incomplete carrying a count n on a proper prefix of a short or long
\* frame (declared length at least 2), n is at least 1 and at most the
\* number of bytes of the frame still missing.
C20_NeverOverAsks ==
  (/\ ProperPrefix
   /\ Frame.kind \in {"short", "long"}
   /\ FailedWith("Incomplete")
   /\ Out.error.needed.some) =>
    /\ Out.error.needed.n >= 1
    /\ Out.error.needed.n <= Missing

\* C20 witness: with three of four user-data bytes delivered, Incomplete
\* asks for one byte where three are missing.
C20_Witness ==
  /\ ProperPrefix
  /\ Frame \in LongerFrames
  /\ Len(result.input) = 10
  /\ FailedWith("Incomplete")
  /\ Out.error.needed = Some(1)
  /\ Missing = 3

---------------------------------------------------------------------------
(* The order of the checksum and stop-character checks (SpecFault). *)

\* C16 (as claimed): a complete frame with a recognized control byte and a
\* wrong checksum byte fails with ChecksumMismatch whatever byte stands in
\* the stop-character position.
C16_ChecksumFirst ==
  (WholeDamagedFrame /\ fault.bits # {}) => FailedWith("ChecksumMismatch")

\* C16 (amended): the stop character is verified before the checksum is
\* compared. A complete frame with a recognized control byte and a wrong
\* checksum byte fails with ChecksumMismatch when 0x16 stands in the
\* stop-character position and with InvalidFormat when any other byte does.
C16_StopFirst ==
  (WholeDamagedFrame /\ fault.bits # {}) =>
    IF fault.stop = STOP_CHAR
    THEN FailedWith("ChecksumMismatch")
    ELSE FailedWith("InvalidFormat")

\* C16 witness: a short frame with the lowest bit of its checksum flipped
\* and 0x17 for its stop byte has been refused with InvalidFormat.
C16_Witness ==
  /\ WholeDamagedFrame
  /\ fault = [bits |-> {0}, stop |-> \h17]
  /\ sent[1].kind = "short"
  /\ FailedWith("InvalidFormat")

---------------------------------------------------------------------------
(* Commitment, shortfall and stability on arbitrary bytes (SpecRaw). *)

\* C15 (as claimed): on every input that begins with 0x10 or with
\* 0x68 L L 0x68 with equal length bytes, Telegram::parse never returns
\* InvalidStartCharacter, and the call either succeeds or fails with
\* InvalidFormat, ChecksumMismatch or Incomplete.
C15_NoBacktracking ==
  Committed =>
    /\ ~FailedWith("InvalidStartCharacter")
    /\ \/ Succeeded
       \/ FailedWith("InvalidFormat")
       \/ FailedWith("ChecksumMismatch")
       \/ FailedWith("Incomplete")

\* C17 (as claimed): on the one byte 0x68 Telegram::parse fails with
\* Incomplete carrying no byte count.
C17_UnknownShortfall ==
  (Called /\ result.input = <<LONG_START_CHAR>>) =>
    /\ FailedWith("Incomplete")
    /\ Out.error.needed = None

\* C17 (amended): on the one byte 0x68 Telegram::parse fails with Incomplete
\* carrying the count 1, the length byte the parser asked for.
C17_OneByteShortfall ==
  (Called /\ result.input = <<LONG_START_CHAR>>) =>
    /\ FailedWith("Incomplete")
    /\ Out.error.needed = Some(1)

\* C17 witness: the call on the one byte 0x68 has been made and has failed
\* with Incomplete.
C17_Witness ==
  /\ Called
  /\ result.input = <<LONG_START_CHAR>>
  /\ FailedWith("Incomplete")
  /\ Out.error.needed.some

\* C18: Prefix stability. For every split of the last call's input into x
\* and a non-empty y: if Telegram::parse on x succeeds with telegram t and
\* remainder r, the call has succeeded with t and r followed by y; if it
\* fails on x with InvalidStartCharacter, InvalidFormat or ChecksumMismatch,
\* the call has failed with the same error.
C18_PrefixStability ==
  Called =>
    \A k \in 0..(Len(result.input) - 1) :
      LET x == SubSeq(result.input, 1, k)
          y == Drop(result.input, k)
          p == parse(x)
      IN  /\ p.tag = "Ok" => Out = ParseOk(p.rest \o y, p.telegram)
          /\ (p.tag = "Err" /\ p.error.kind # "Incomplete") => Out = p

\* C18 witness: a short frame followed by one more byte has been parsed to
\* the telegram of its first five bytes, with that byte as the remainder.
C18_Witness ==
  /\ Succeeded
  /\ result.input = <<\h10, \h08, \h00, \h08, \h16, \h00>>
  /\ parse(SubSeq(result.input, 1, 5)).tag = "Ok"
  /\ Out.telegram = parse(SubSeq(result.input, 1, 5)).telegram
  /\ Out.rest = <<\h00>>

\* C19 (as claimed): Telegram::parse never returns Incomplete on an input
\* of at least 5 bytes that begins with 0x10, nor on an input of at least
\* L + 6 bytes that begins 0x68 L L 0x68, so that a caller appending one
\* byte after each Incomplete gets another result after at most 261 bytes.
C19_BoundedRetry ==
  (\/ ShortStart /\ Len(result.input) >= 5
   \/ LongStart /\ Len(result.input) >= result.input[2] + 6) =>
    ~FailedWith("Incomplete")

===========================================================================
